---- MODULE Spec2Model ----
(***************************************************************************)
(* Model of the filename normalizer of cmd-img (src/cmd.go): the pure      *)
(* transform normalizeName, the file-level operation imgNormalize, and the *)
(* batch loops imgNormalizeMany / imgNormalizeAll, run over a small        *)
(* in-memory filesystem.                                                   *)
(*                                                                         *)
(* Strings are sequences of one-character strings.  Paths are Unix paths   *)
(* ("/" is the separator).  The filesystem has no symbolic links and no    *)
(* other process changes it; os.Stat fails exactly when the path does not  *)
(* exist; copyFile and os.Remove may fail at any of their steps.           *)
(*                                                                         *)
(* Spec runs one normalize or normalize-all command.  SpecName applies     *)
(* normalizeName and the path computation of imgNormalize to every short   *)
(* string.                                                                 *)
(***************************************************************************)
EXTENDS Naturals, Sequences, FiniteSets

VARIABLES
    fs,          \* the filesystem: resolved absolute path -> entry
    fs0,         \* the filesystem when the command was started (history)
    args,        \* cmdArgs of the normalize command
    deleteOrig,  \* the --delete flag
    pc,          \* "start", "loop" (inside the batch loop) or "done"
    files,       \* the list the batch loop ranges over
    idx,         \* number of loop iterations completed
    errs,        \* the errs slice of the batch loop
    out,         \* the lines printed to out, in order
    ret,         \* what the batch returned: "none" (running), "nil", "error"
    cancelled,   \* ctx.Done() is closed (the interrupt signal arrived)
    hist,        \* per iteration: what imgNormalize was given and did (history)
    nameIn,      \* the string normalizeName is applied to on its own
    dirIn,       \* directory spelling put in front of nameIn
    namePc,      \* "in", "once", "twice"
    nameOut,     \* normalizeName(nameIn)
    nameTwice,   \* normalizeName(nameOut)
    plan,        \* the path computation of imgNormalize on dirIn \o nameIn
    planTwice    \* the path computation of imgNormalize on plan.newPath

batchVars == <<fs, fs0, args, deleteOrig, pc, files, idx, errs, out, ret, cancelled, hist>>
nameVars == <<nameIn, dirIn, namePc, nameOut, nameTwice, plan, planTwice>>
vars == <<batchVars, nameVars>>

----------------------------------------------------------------------------
(* Bounds *)

\* longest string given to normalizeName / longest file name
MaxLen == 3
\* longest argument list of one normalize command
MaxFiles == 2

----------------------------------------------------------------------------
(* Strings *)

\* characters of the strings given to normalizeName: upper and lower case letters,
\* two whitespace characters (space and tab), the hyphen, another
\* punctuation character and the dot
Alphabet == {"A", "a", " ", "\t", "-", "_", "."}

\* the members of the regexp class \s that occur in the alphabet
\* (\s is [\t\n\f\r ])
WhiteSpace == {" ", "\t"}

RECURSIVE StringsUpTo(_)
StringsUpTo(n) ==
    IF n = 0 THEN {<<>>}
    ELSE LET shorter == StringsUpTo(n - 1)
         IN  shorter \cup {Append(s, c) : s \in {t \in shorter : Len(t) = n - 1}, c \in Alphabet}

\* unicode.ToLower on one character
ToLowerChar(c) ==
    CASE c = "A" -> "a"
      [] c = "T" -> "t"
      [] OTHER -> c

\* strings.ToLower
ToLower(s) == [k \in 1..Len(s) |-> ToLowerChar(s[k])]

\* s without its longest prefix of characters of class
RECURSIVE DropClass(_, _)
DropClass(s, class) ==
    IF s # <<>> /\ s[1] \in class THEN DropClass(Tail(s), class) ELSE s

\* regexp.MustCompile(`[class]+`).ReplaceAllString(s, rep): every maximal run
\* of characters of class becomes rep
RECURSIVE ReplaceRuns(_, _, _)
ReplaceRuns(s, class, rep) ==
    IF s = <<>> THEN <<>>
    ELSE IF s[1] \in class THEN rep \o ReplaceRuns(DropClass(s, class), class, rep)
    ELSE <<s[1]>> \o ReplaceRuns(Tail(s), class, rep)

\* strings.ReplaceAll(s, old, new) for a one-character old and new
ReplaceAll(s, old, new) == [k \in 1..Len(s) |-> IF s[k] = old THEN new ELSE s[k]]

\* s without its longest suffix of characters of class
RECURSIVE DropClassRight(_, _)
DropClassRight(s, class) ==
    IF s # <<>> /\ s[Len(s)] \in class
    THEN DropClassRight(SubSeq(s, 1, Len(s) - 1), class)
    ELSE s

\* strings.Trim(s, cutset)
Trim(s, cutset) == DropClassRight(DropClass(s, cutset), cutset)

\* the fallback name of normalizeName
Placeholder == <<"f", "i", "l", "e">>

\* normalizeName with the hyphens trimmed before the whitespace is replaced
\* (the trim placed too early)
normalizeNameTrimFirst(s) ==
    LET lower     == ToLower(s)
        trimmed   == Trim(lower, {"-"})
        spaced    == ReplaceRuns(trimmed, WhiteSpace, <<"-">>)
        literal   == ReplaceAll(spaced, " ", "-")
        collapsed == ReplaceRuns(literal, {"-"}, <<"-">>)
    IN  IF collapsed = <<>> THEN Placeholder ELSE collapsed

\* normalizeName without the trim of leading and trailing hyphens
normalizeNameNoTrim(s) ==
    LET lower     == ToLower(s)
        spaced    == ReplaceRuns(lower, WhiteSpace, <<"-">>)
        literal   == ReplaceAll(spaced, " ", "-")
        collapsed == ReplaceRuns(literal, {"-"}, <<"-">>)
    IN  IF collapsed = <<>> THEN Placeholder ELSE collapsed

\* normalizeName without the fallback to the placeholder
normalizeNameNoFallback(s) ==
    LET lower     == ToLower(s)
        spaced    == ReplaceRuns(lower, WhiteSpace, <<"-">>)
        literal   == ReplaceAll(spaced, " ", "-")
        collapsed == ReplaceRuns(literal, {"-"}, <<"-">>)
    IN  Trim(collapsed, {"-"})

\* normalizeName (src/cmd.go:390): lowercase, whitespace runs to one hyphen,
\* literal spaces to hyphens, hyphen runs to one hyphen, trim hyphens,
\* "file" when nothing is left
normalizeName(s) ==
    LET lower     == ToLower(s)
        spaced    == ReplaceRuns(lower, WhiteSpace, <<"-">>)
        literal   == ReplaceAll(spaced, " ", "-")
        collapsed == ReplaceRuns(literal, {"-"}, <<"-">>)
        trimmed   == Trim(collapsed, {"-"})
    IN  IF trimmed = <<>> THEN Placeholder ELSE trimmed

----------------------------------------------------------------------------
(* Paths: path/filepath on Unix *)

Slash == "/"

\* greatest k with s[k] = c, 0 when c does not occur in s
LastIndex(s, c) ==
    LET hits == {k \in 1..Len(s) : s[k] = c}
    IN  IF hits = {} THEN 0 ELSE CHOOSE k \in hits : \A j \in hits : j <= k

\* least k with s[k] = c, 0 when c does not occur in s
FirstIndex(s, c) ==
    LET hits == {k \in 1..Len(s) : s[k] = c}
    IN  IF hits = {} THEN 0 ELSE CHOOSE k \in hits : \A j \in hits : k <= j

\* the elements of p between its separators, empty ones included
RECURSIVE SplitSlash(_)
SplitSlash(p) ==
    LET k == FirstIndex(p, Slash)
    IN  IF k = 0 THEN <<p>>
        ELSE <<SubSeq(p, 1, k - 1)>> \o SplitSlash(SubSeq(p, k + 1, Len(p)))

\* the loop of filepath.Clean over the elements of a path: empty elements
\* and "." are dropped, ".." removes the element before it (it is dropped
\* at the root and kept at the start of a relative path)
RECURSIVE CleanElems(_, _, _)
CleanElems(elems, stack, rooted) ==
    IF elems = <<>> THEN stack
    ELSE LET e    == Head(elems)
             rest == Tail(elems)
         IN  IF e = <<>> \/ e = <<".">> THEN CleanElems(rest, stack, rooted)
             ELSE IF e = <<".", ".">>
             THEN IF stack # <<>> /\ stack[Len(stack)] # <<".", ".">>
                  THEN CleanElems(rest, SubSeq(stack, 1, Len(stack) - 1), rooted)
                  ELSE IF rooted THEN CleanElems(rest, stack, rooted)
                  ELSE CleanElems(rest, Append(stack, e), rooted)
             ELSE CleanElems(rest, Append(stack, e), rooted)

\* elements joined by separators
RECURSIVE JoinElems(_)
JoinElems(elems) ==
    IF elems = <<>> THEN <<>>
    ELSE IF Len(elems) = 1 THEN elems[1]
    ELSE elems[1] \o <<Slash>> \o JoinElems(Tail(elems))

\* filepath.Clean
Clean(p) ==
    IF p = <<>> THEN <<".">>
    ELSE LET rooted == p[1] = Slash
             body   == JoinElems(CleanElems(SplitSlash(p), <<>>, rooted))
             result == IF rooted THEN <<Slash>> \o body ELSE body
         IN  IF result = <<>> THEN <<".">> ELSE result

\* filepath.Dir: everything up to the last separator, cleaned
Dir(p) == Clean(SubSeq(p, 1, LastIndex(p, Slash)))

\* filepath.Base: the last element, trailing separators stripped
Base(p) ==
    IF p = <<>> THEN <<".">>
    ELSE LET stripped == DropClassRight(p, {Slash})
             last     == SubSeq(stripped, LastIndex(stripped, Slash) + 1, Len(stripped))
         IN  IF last = <<>> THEN <<Slash>> ELSE last

\* filepath.Ext: the suffix of the last element from its last dot on
Ext(p) ==
    LET dot == LastIndex(p, ".")
    IN  IF dot > LastIndex(p, Slash) THEN SubSeq(p, dot, Len(p)) ELSE <<>>

\* strings.HasSuffix / strings.HasPrefix / strings.TrimSuffix
HasSuffix(s, suf) ==
    Len(suf) <= Len(s) /\ SubSeq(s, Len(s) - Len(suf) + 1, Len(s)) = suf

HasPrefix(s, pre) == Len(pre) <= Len(s) /\ SubSeq(s, 1, Len(pre)) = pre

TrimSuffix(s, suf) ==
    IF HasSuffix(s, suf) THEN SubSeq(s, 1, Len(s) - Len(suf)) ELSE s

\* filepath.Join of two elements: empty elements are ignored, the rest is
\* joined by a separator and cleaned
Join(a, b) ==
    IF a = <<>> /\ b = <<>> THEN <<>>
    ELSE IF a = <<>> THEN Clean(b)
    ELSE IF b = <<>> THEN Clean(a)
    ELSE Clean(a \o <<Slash>> \o b)

\* The path computation of imgNormalize (src/cmd.go:304-322), every local kept
NewPathPlan(path) ==
    LET dir            == Dir(path)
        name           == Base(path)
        ext            == Ext(name)
        base           == TrimSuffix(name, ext)
        normalizedBase == normalizeName(base)
        extLower0      == ToLower(ext)
        extLower       == IF extLower0 # <<>> /\ ~HasPrefix(extLower0, <<".">>)
                          THEN <<".">> \o extLower0 ELSE extLower0
        newName        == IF extLower0 # <<>> THEN normalizedBase \o extLower
                          ELSE normalizedBase
    IN  [path |-> path, dir |-> dir, name |-> name, ext |-> ext, base |-> base,
         normalizedBase |-> normalizedBase, extLower |-> extLower,
         newName |-> newName, newPath |-> Join(dir, newName)]

----------------------------------------------------------------------------
(* The filesystem *)

\* the working directory of the process
Cwd == <<"/", "d">>

\* the absolute, cleaned path the kernel resolves p to (no symbolic links)
Resolve(p) ==
    IF HasPrefix(p, <<Slash>>) THEN Clean(p) ELSE Clean(Cwd \o <<Slash>> \o p)

DirEntry == [isDir |-> TRUE, data |-> <<>>]
FileEntry(data) == [isDir |-> FALSE, data |-> data]

Put(f, p, e) == [q \in (DOMAIN f) \cup {p} |-> IF q = p THEN e ELSE f[q]]
Delete(f, p) == [q \in (DOMAIN f) \ {p} |-> f[q]]

\* os.Stat(path): any error is "the path does not exist" to its callers
Stat(f, path) ==
    IF path # <<>> /\ Resolve(path) \in DOMAIN f
    THEN [err |-> FALSE, isDir |-> f[Resolve(path)].isDir]
    ELSE [err |-> TRUE, isDir |-> FALSE]

\* How one call of copyFile can go: to the end, or an error from os.Open,
\* from os.Create, from io.Copy after n bytes were written, or from Sync
CopyOutcomes(data) ==
    {[at |-> a, n |-> Len(data)] : a \in {"ok", "open", "create", "sync"}}
        \cup {[at |-> "copy", n |-> k] : k \in 0..Len(data)}

\* How one call of os.Remove can go
RemoveOutcomes == {"ok", "fail"}

\* copyFile that creates dst and returns without copying anything
copyFileNoData(f, src, dst, co) ==
    IF Stat(f, src).err \/ co.at = "open" THEN [fs |-> f, err |-> TRUE]
    ELSE IF co.at = "create"
            \/ Stat(f, Dir(dst)).err \/ ~Stat(f, Dir(dst)).isDir
            \/ (~Stat(f, dst).err /\ Stat(f, dst).isDir)
    THEN [fs |-> f, err |-> TRUE]
    ELSE [fs |-> Put(f, Resolve(dst), FileEntry(<<>>)), err |-> co.at = "sync"]

\* copyFile (src/cmd.go:473): open src, create (or truncate) dst, copy, sync.
\* An error after os.Create leaves dst with what was written so far.
copyFile(f, src, dst, co) ==
    IF Stat(f, src).err \/ co.at = "open" THEN [fs |-> f, err |-> TRUE]
    ELSE IF co.at = "create"
            \/ Stat(f, Dir(dst)).err \/ ~Stat(f, Dir(dst)).isDir
            \/ (~Stat(f, dst).err /\ Stat(f, dst).isDir)
    THEN [fs |-> f, err |-> TRUE]
    ELSE LET data == f[Resolve(src)].data
         IN  IF co.at = "copy"
             THEN [fs  |-> Put(f, Resolve(dst), FileEntry(SubSeq(data, 1, co.n))),
                   err |-> TRUE]
             ELSE [fs  |-> Put(f, Resolve(dst), FileEntry(data)),
                   err |-> co.at = "sync"]

\* the result of imgNormalize: the filesystem it leaves, the kind of error it
\* returns ("nil" for none), the line it prints ("none" for none) and the
\* new path it computed (<<>> when it returned before computing one)
Result(f, err, msg, newPath) == [fs |-> f, err |-> err, msg |-> msg, newPath |-> newPath]

\* imgNormalize with the original removed whenever --delete is given, also
\* after the copy failed
imgNormalizeRemoveAlways(f, path, del, co, ro) ==
    LET st == Stat(f, path)
        pl == NewPathPlan(path)
        cp == copyFile(f, path, pl.newPath, co)
    IN  IF st.err THEN Result(f, "NotFound", "none", <<>>)
        ELSE IF st.isDir THEN Result(f, "IsDirectory", "none", <<>>)
        ELSE IF pl.newPath = path THEN Result(f, "nil", "NoChange", pl.newPath)
        ELSE IF ~Stat(f, pl.newPath).err THEN Result(f, "Conflict", "none", pl.newPath)
        ELSE IF del
        THEN IF ro = "fail" THEN Result(cp.fs, "RemoveFailed", "none", pl.newPath)
             ELSE Result(Delete(cp.fs, Resolve(path)),
                         IF cp.err THEN "CopyFailed" ELSE "nil",
                         IF cp.err THEN "none" ELSE "Renamed", pl.newPath)
        ELSE IF cp.err THEN Result(cp.fs, "CopyFailed", "none", pl.newPath)
        ELSE Result(cp.fs, "nil", "Created", pl.newPath)

\* imgNormalize that takes an existing target for a copy made earlier and,
\* with --delete, removes the original
imgNormalizeRemoveOnConflict(f, path, del, co, ro) ==
    LET st == Stat(f, path)
        pl == NewPathPlan(path)
        cp == copyFile(f, path, pl.newPath, co)
    IN  IF st.err THEN Result(f, "NotFound", "none", <<>>)
        ELSE IF st.isDir THEN Result(f, "IsDirectory", "none", <<>>)
        ELSE IF pl.newPath = path THEN Result(f, "nil", "NoChange", pl.newPath)
        ELSE IF ~Stat(f, pl.newPath).err
        THEN Result(IF del THEN Delete(f, Resolve(path)) ELSE f,
                    "Conflict", "none", pl.newPath)
        ELSE IF cp.err THEN Result(cp.fs, "CopyFailed", "none", pl.newPath)
        ELSE IF del
        THEN IF ro = "fail" THEN Result(cp.fs, "RemoveFailed", "none", pl.newPath)
             ELSE Result(Delete(cp.fs, Resolve(path)), "nil", "Renamed", pl.newPath)
        ELSE Result(cp.fs, "nil", "Created", pl.newPath)

\* imgNormalize without the os.Stat of the target
imgNormalizeOverwrite(f, path, del, co, ro) ==
    LET st == Stat(f, path)
        pl == NewPathPlan(path)
        cp == copyFile(f, path, pl.newPath, co)
    IN  IF st.err THEN Result(f, "NotFound", "none", <<>>)
        ELSE IF st.isDir THEN Result(f, "IsDirectory", "none", <<>>)
        ELSE IF pl.newPath = path THEN Result(f, "nil", "NoChange", pl.newPath)
        ELSE IF cp.err THEN Result(cp.fs, "CopyFailed", "none", pl.newPath)
        ELSE IF del
        THEN IF ro = "fail" THEN Result(cp.fs, "RemoveFailed", "none", pl.newPath)
             ELSE Result(Delete(cp.fs, Resolve(path)), "nil", "Renamed", pl.newPath)
        ELSE Result(cp.fs, "nil", "Created", pl.newPath)

\* imgNormalize (src/cmd.go:294)
imgNormalize(f, path, del, co, ro) ==
    LET st == Stat(f, path)
        pl == NewPathPlan(path)
        cp == copyFile(f, path, pl.newPath, co)
    IN  IF st.err THEN Result(f, "NotFound", "none", <<>>)
        ELSE IF st.isDir THEN Result(f, "IsDirectory", "none", <<>>)
        ELSE IF pl.newPath = path THEN Result(f, "nil", "NoChange", pl.newPath)
        ELSE IF ~Stat(f, pl.newPath).err THEN Result(f, "Conflict", "none", pl.newPath)
        ELSE IF cp.err THEN Result(cp.fs, "CopyFailed", "none", pl.newPath)
        ELSE IF del
        THEN IF ro = "fail" THEN Result(cp.fs, "RemoveFailed", "none", pl.newPath)
             ELSE Result(Delete(cp.fs, Resolve(path)), "nil", "Renamed", pl.newPath)
        ELSE Result(cp.fs, "nil", "Created", pl.newPath)

----------------------------------------------------------------------------
(* The commands: normalize <file>... and normalize-all *)

\* the files the working directory may hold when the command starts, each
\* with its own content
FileAT == <<"/", "d", "/", "A", ".", "T">>
FileaT == <<"/", "d", "/", "a", ".", "T">>
Fileat == <<"/", "d", "/", "a", ".", "t">>
SubDir == <<"/", "d", "/", "s">>

Candidates == {FileAT, FileaT, Fileat}

ContentOf(p) ==
    CASE p = FileAT -> <<"x", "1">>
      [] p = FileaT -> <<"y", "2">>
      [] p = Fileat -> <<"z", "3">>

\* the directories, which every initial filesystem holds
BaseFs == [q \in {<<Slash>>, Cwd, SubDir} |-> DirEntry]

InitialFs(present) ==
    [q \in (DOMAIN BaseFs) \cup present |->
        IF q \in present THEN FileEntry(ContentOf(q)) ELSE DirEntry]

\* the paths a command line may name: the three files by bare name, the
\* canonical one also with a leading "./", absolute and with a doubled
\* separator, a path that does not exist and a directory
InputPaths ==
    { <<"A", ".", "T">>,
      <<"a", ".", "T">>,
      <<"a", ".", "t">>,
      <<".", "/", "a", ".", "t">>,
      <<"/", "d", "/", "a", ".", "t">>,
      <<"/", "d", "/", "/", "a", ".", "t">>,
      <<"/", "n">>,
      <<"s">> }

RECURSIVE ListsUpTo(_, _)
ListsUpTo(S, n) ==
    IF n = 0 THEN {<<>>}
    ELSE LET shorter == ListsUpTo(S, n - 1)
         IN  shorter \cup {Append(l, x) : l \in {m \in shorter : Len(m) = n - 1}, x \in S}

\* the byte value of a character, for the order of os.ReadDir
Code(c) ==
    CASE c = "." -> 46
      [] c = "A" -> 65
      [] c = "T" -> 84
      [] c = "a" -> 97
      [] c = "s" -> 115
      [] c = "t" -> 116
      [] OTHER -> 0

\* byte-wise order of strings
RECURSIVE Less(_, _)
Less(a, b) ==
    IF b = <<>> THEN FALSE
    ELSE IF a = <<>> THEN TRUE
    ELSE IF a[1] = b[1] THEN Less(Tail(a), Tail(b))
    ELSE Code(a[1]) < Code(b[1])

RECURSIVE Sorted(_)
Sorted(S) ==
    IF S = {} THEN <<>>
    ELSE LET least == CHOOSE a \in S : \A b \in S \ {a} : Less(a, b)
         IN  <<least>> \o Sorted(S \ {least})

\* os.ReadDir("."): the names of the entries of the working directory,
\* sorted by name
ReadDir(f) == Sorted({Base(q) : q \in {r \in DOMAIN f : r # Cwd /\ Dir(r) = Cwd}})

\* what an iteration of a batch loop leaves in the history
Done(path, r) ==
    [path |-> path, err |-> r.err, msg |-> r.msg, newPath |-> r.newPath, after |-> r.fs]

(* Init: the command line is parsed; nothing has run *)
BatchInit ==
    /\ \E present \in SUBSET Candidates : fs = InitialFs(present)
    /\ fs0 = fs
    /\ args \in ListsUpTo(InputPaths, MaxFiles)
    /\ deleteOrig \in BOOLEAN
    /\ pc = "start"
    /\ files = <<>>
    /\ idx = 0
    /\ errs = <<>>
    /\ out = <<>>
    /\ ret = "none"
    /\ cancelled = FALSE
    /\ hist = <<>>

\* normalizeName is not being applied on its own
NoPlan ==
    [path |-> <<>>, dir |-> <<>>, name |-> <<>>, ext |-> <<>>, base |-> <<>>,
     normalizedBase |-> <<>>, extLower |-> <<>>, newName |-> <<>>, newPath |-> <<>>]

NameIdle ==
    /\ nameIn = <<>>
    /\ dirIn = <<>>
    /\ namePc = "idle"
    /\ nameOut = <<>>
    /\ nameTwice = <<>>
    /\ plan = NoPlan
    /\ planTwice = NoPlan

Init == BatchInit /\ NameIdle

\* normalize <file>...: cobra.MinimumNArgs(1), then imgNormalizeMany(cmdArgs)
StartNormalizeMany ==
    /\ pc = "start"
    /\ Len(args) >= 1
    /\ files' = args
    /\ pc' = "loop"
    /\ UNCHANGED <<fs, fs0, args, deleteOrig, idx, errs, out, ret, cancelled, hist>>
    /\ UNCHANGED nameVars

\* normalize-all: cobra.NoArgs, then imgNormalizeAll reads the directory
StartNormalizeAll ==
    /\ pc = "start"
    /\ Len(args) = 0
    /\ files' = ReadDir(fs)
    /\ pc' = "loop"
    /\ UNCHANGED <<fs, fs0, args, deleteOrig, idx, errs, out, ret, cancelled, hist>>
    /\ UNCHANGED nameVars

\* the bytes io.Copy has to copy when copyFile is given path as its source
SourceData(f, path) ==
    IF Stat(f, path).err THEN <<>> ELSE f[Resolve(path)].data

\* one iteration of either loop on f: imgNormalize, and its error appended
Iterate(f) ==
    \E co \in CopyOutcomes(SourceData(fs, f)), ro \in RemoveOutcomes :
        \E r \in {imgNormalize(fs, f, deleteOrig, co, ro)} :
            /\ fs' = r.fs
            /\ errs' = IF r.err # "nil" THEN Append(errs, [path |-> f, kind |-> r.err])
                       ELSE errs
            /\ out' = IF r.msg # "none"
                      THEN Append(out, [msg |-> r.msg, path |-> f, newPath |-> r.newPath])
                      ELSE out
            /\ hist' = Append(hist, Done(f, r))
            /\ idx' = idx + 1

\* the loop of imgNormalizeMany returning at the first error
NormalizeManyStepFailFast ==
    /\ pc = "loop"
    /\ Len(args) >= 1
    /\ idx < Len(files)
    /\ Iterate(files[idx + 1])
    /\ pc' = IF Len(errs') > Len(errs) THEN "done" ELSE pc
    /\ ret' = IF Len(errs') > Len(errs) THEN "error" ELSE ret
    /\ UNCHANGED <<fs0, args, deleteOrig, files, cancelled>>
    /\ UNCHANGED nameVars

\* the body of the loop of imgNormalizeMany (src/cmd.go:354-358)
NormalizeManyStep ==
    /\ pc = "loop"
    /\ Len(args) >= 1
    /\ idx < Len(files)
    /\ Iterate(files[idx + 1])
    /\ UNCHANGED <<fs0, args, deleteOrig, pc, files, ret, cancelled>>
    /\ UNCHANGED nameVars

\* the body of the loop of imgNormalizeAll (src/cmd.go:373-381):
\* directories are skipped
NormalizeAllStep ==
    /\ pc = "loop"
    /\ Len(args) = 0
    /\ idx < Len(files)
    /\ IF Stat(fs, files[idx + 1]).isDir
       THEN /\ idx' = idx + 1
            /\ hist' = Append(hist,
                  Done(files[idx + 1], Result(fs, "nil", "skipped", <<>>)))
            /\ UNCHANGED <<fs, errs, out>>
       ELSE Iterate(files[idx + 1])
    /\ UNCHANGED <<fs0, args, deleteOrig, pc, files, ret, cancelled>>
    /\ UNCHANGED nameVars

\* the end of either loop: an error when errs is not empty, nil otherwise
Return ==
    /\ pc = "loop"
    /\ idx = Len(files)
    /\ ret' = IF Len(errs) > 0 THEN "error" ELSE "nil"
    /\ pc' = "done"
    /\ UNCHANGED <<fs, fs0, args, deleteOrig, files, idx, errs, out, cancelled, hist>>
    /\ UNCHANGED nameVars

\* the interrupt signal: signal.NotifyContext cancels ctx; nothing else
\* happens to the process
Interrupt ==
    /\ pc \in {"start", "loop"}
    /\ ~cancelled
    /\ cancelled' = TRUE
    /\ UNCHANGED <<fs, fs0, args, deleteOrig, pc, files, idx, errs, out, ret, hist>>
    /\ UNCHANGED nameVars

Next ==
    \/ StartNormalizeMany
    \/ StartNormalizeAll
    \/ NormalizeManyStep
    \/ NormalizeAllStep
    \/ Return
    \/ Interrupt

Spec == Init /\ [][Next]_vars

----------------------------------------------------------------------------
(* normalizeName and the path computation of imgNormalize on their own:   *)
(* every string up to MaxLen as a name, behind every directory spelling    *)

\* bare name, leading "./", absolute, absolute with a doubled separator
DirSpellings ==
    { <<>>,
      <<".", "/">>,
      <<"/", "d", "/">>,
      <<"/", "d", "/", "/">> }

BatchIdle ==
    /\ fs = BaseFs
    /\ fs0 = BaseFs
    /\ args = <<>>
    /\ deleteOrig = FALSE
    /\ pc = "done"
    /\ files = <<>>
    /\ idx = 0
    /\ errs = <<>>
    /\ out = <<>>
    /\ ret = "nil"
    /\ cancelled = FALSE
    /\ hist = <<>>

NameInit ==
    /\ nameIn \in StringsUpTo(MaxLen)
    /\ dirIn \in DirSpellings
    /\ namePc = "in"
    /\ nameOut = <<>>
    /\ nameTwice = <<>>
    /\ plan = NoPlan
    /\ planTwice = NoPlan
    /\ BatchIdle

\* normalizeName applied to the string, and imgNormalize's computation
\* applied to the path made of the directory spelling and the string
NormalizeOnce ==
    /\ namePc = "in"
    /\ nameOut' = normalizeName(nameIn)
    /\ plan' = NewPathPlan(dirIn \o nameIn)
    /\ namePc' = "once"
    /\ UNCHANGED <<nameIn, dirIn, nameTwice, planTwice>>
    /\ UNCHANGED batchVars

\* both applied again, to what the first application produced
NormalizeTwice ==
    /\ namePc = "once"
    /\ nameTwice' = normalizeName(nameOut)
    /\ planTwice' = NewPathPlan(plan.newPath)
    /\ namePc' = "twice"
    /\ UNCHANGED <<nameIn, dirIn, nameOut, plan>>
    /\ UNCHANGED batchVars

NameNext ==
    \/ NormalizeOnce
    \/ NormalizeTwice

SpecName == NameInit /\ [][NameNext]_vars

----------------------------------------------------------------------------
(* Properties of normalizeName and of the path computation (SpecName) *)

\* a string that can be the name of a file in a directory
IsFileName(n) == n # <<>> /\ n # <<".">> /\ n # <<".", ".">>

UpperCase == {"A", "T"}
\* the lowercase letters and digits that occur in names of the model
LowerAlnum == {"a", "t", "s", "n", "d", "f", "i", "l", "e"}
Hyphen == "-"

NoLeadingOrTrailingHyphen(s) == s # <<>> => s[1] # Hyphen /\ s[Len(s)] # Hyphen
NoHyphenRun(s) == \A k \in 1..(Len(s) - 1) : ~(s[k] = Hyphen /\ s[k + 1] = Hyphen)

\* C5 as stated: for every file name, the base of the new path that
\* imgNormalize computes holds only lowercase alphanumerics and single
\* hyphens, has no leading or trailing hyphen and is not empty.
C5_OnlyAlnumAndHyphens ==
    (namePc # "in" /\ IsFileName(nameIn)) =>
        /\ plan.normalizedBase # <<>>
        /\ \A k \in 1..Len(plan.normalizedBase) :
               plan.normalizedBase[k] \in LowerAlnum \cup {Hyphen}
        /\ NoHyphenRun(plan.normalizedBase)
        /\ NoLeadingOrTrailingHyphen(plan.normalizedBase)

\* C5 amended: for every file name, the base of the new path holds no
\* uppercase letter, no whitespace character, no two adjacent hyphens, no
\* leading or trailing hyphen, and is not empty (other characters of the
\* input, such as "_" and ".", are kept).
C5_CanonicalBase ==
    (namePc # "in" /\ IsFileName(nameIn)) =>
        /\ plan.normalizedBase # <<>>
        /\ \A k \in 1..Len(plan.normalizedBase) :
               plan.normalizedBase[k] \notin UpperCase \cup WhiteSpace
        /\ NoHyphenRun(plan.normalizedBase)
        /\ NoLeadingOrTrailingHyphen(plan.normalizedBase)

\* a name whose base has uppercase, whitespace and hyphens at the end was
\* normalized
C5_Witness ==
    /\ namePc = "once"
    /\ nameIn = <<"A", " ", "-">>
    /\ plan.normalizedBase = <<"a">>

\* C6: normalizeName applied to its own result returns that result, and
\* imgNormalize applied to the path it produced for a file computes that
\* same path again, which is its "No change" case.
C6_Idempotent ==
    namePc = "twice" =>
        /\ nameTwice = nameOut
        /\ IsFileName(nameIn) =>
               /\ planTwice.path = plan.newPath
               /\ planTwice.newPath = planTwice.path

\* a name that normalization changes was normalized twice
C6_Witness ==
    /\ namePc = "twice"
    /\ nameIn = <<"A", "\t", "a">>
    /\ nameOut = <<"a", "-", "a">>
    /\ plan.newPath # plan.path

\* C7: normalizeName never returns the empty string, and it returns "file"
\* for every string made of whitespace and hyphens only, the empty string
\* included.
C7_TotalWithPlaceholder ==
    namePc # "in" =>
        /\ nameOut # <<>>
        /\ (\A k \in 1..Len(nameIn) : nameIn[k] \in WhiteSpace \cup {Hyphen})
               => nameOut = Placeholder

\* a string of whitespace and hyphens was normalized to the placeholder
C7_Witness ==
    /\ namePc = "once"
    /\ nameIn = <<" ", "-", "\t">>
    /\ nameOut = Placeholder

----------------------------------------------------------------------------
(* Properties of imgNormalize and of the batch loops (Spec) *)

\* the filesystem the k-th iteration started from
FsBefore(k) == IF k = 1 THEN fs0 ELSE hist[k - 1].after

\* the iterations that called imgNormalize
Calls == {k \in 1..Len(hist) : hist[k].msg # "skipped"}

IsFile(f, path) == ~Stat(f, path).err /\ ~Stat(f, path).isDir

\* the file name of path is already what imgNormalize would make of it
CanonicalName(path) ==
    LET pl == NewPathPlan(path)
    IN  pl.normalizedBase = pl.base /\ pl.extLower = pl.ext

\* the iteration failed
Failed(k) == hist[k].err # "nil"

\* the k-th iteration left a copy of its file at the new path and, under
\* --delete, removed the original
CopyPerformed(k) ==
    LET before == FsBefore(k)
        after  == hist[k].after
        p      == Resolve(hist[k].path)
        q      == Resolve(hist[k].newPath)
    IN  /\ hist[k].newPath # <<>>
        /\ p # q
        /\ p \in DOMAIN before
        /\ q \in DOMAIN after
        /\ after[q] = FileEntry(before[p].data)
        /\ deleteOrig => p \notin DOMAIN after

\* C1 as stated: imgNormalize on an existing file whose name is already
\* canonical prints "No change", returns nil and leaves the filesystem as
\* it was, however the directory part of the path is spelled.
C1_NoChangeForCanonicalName ==
    \A k \in Calls :
        (IsFile(FsBefore(k), hist[k].path) /\ CanonicalName(hist[k].path)) =>
            /\ hist[k].msg = "NoChange"
            /\ hist[k].err = "nil"
            /\ hist[k].after = FsBefore(k)

\* C2: imgNormalize on an existing file whose new path differs from the
\* path and already exists returns the Conflict error and leaves the
\* filesystem as it was, with or without --delete.
C2_ConflictLeavesFilesystem ==
    \A k \in Calls :
        LET before == FsBefore(k)
            pl     == NewPathPlan(hist[k].path)
        IN  (/\ IsFile(before, hist[k].path)
             /\ pl.newPath # hist[k].path
             /\ ~Stat(before, pl.newPath).err) =>
                /\ hist[k].err = "Conflict"
                /\ hist[k].after = before

\* under --delete, a file whose target is held by another file met the
\* Conflict error
C2_Witness ==
    /\ deleteOrig
    /\ \E k \in Calls :
           /\ hist[k].err = "Conflict"
           /\ Resolve(hist[k].path) = FileAT
           /\ Resolve(hist[k].newPath) = Fileat
           /\ hist[k].after = FsBefore(k)

\* what C3 says of every batch, but for the last clause
BatchAggregates ==
    /\ Len(hist) = Len(files)
    /\ \A k \in 1..Len(hist) : hist[k].path = files[k]
    /\ ret = "error" <=> \E k \in 1..Len(hist) : Failed(k)
    /\ ret = "nil" <=> \A k \in 1..Len(hist) : ~Failed(k)
    /\ LET failed == SelectSeq(hist, LAMBDA h : h.err # "nil")
       IN  errs = [j \in 1..Len(failed) |->
                      [path |-> failed[j].path, kind |-> failed[j].err]]

\* C3 as stated: when imgNormalizeMany returns it has called imgNormalize on
\* every element in order, it returns an error exactly when an element
\* failed, errs holds one entry per failed element with its path, and every
\* element that did not fail has had its copy (and removal) performed.
C3_EveryElementCopiedOrFailed ==
    (pc = "done" /\ Len(args) >= 1) =>
        /\ BatchAggregates
        /\ \A k \in 1..Len(hist) : ~Failed(k) => CopyPerformed(k)

\* C3 amended: ... and every element that did not fail either was reported
\* "No change" (with the filesystem untouched) or has had its copy (and
\* removal) performed.
C3_BatchPartialFailure ==
    (pc = "done" /\ Len(args) >= 1) =>
        /\ BatchAggregates
        /\ \A k \in 1..Len(hist) : ~Failed(k) =>
               \/ hist[k].msg = "NoChange" /\ hist[k].after = FsBefore(k)
               \/ CopyPerformed(k)

\* a batch whose first element failed went on to copy its second and
\* returned the aggregate error
C3_Witness ==
    /\ pc = "done"
    /\ Len(args) = 2
    /\ Len(hist) = 2
    /\ hist[1].err = "NotFound"
    /\ ~Failed(2)
    /\ CopyPerformed(2)
    /\ ret = "error"
    /\ Len(errs) = 1

\* C4: imgNormalize removes the original only under --delete and only after
\* the copy is complete at the new path; after a failed copy the original is
\* still there; when the removal fails an error is returned and the copy
\* stays; under --delete a call that returns nil has removed the original.
C4_RemoveOnlyAfterCopy ==
    \A k \in Calls :
        LET before == FsBefore(k)
            after  == hist[k].after
            p      == Resolve(hist[k].path)
            q      == Resolve(hist[k].newPath)
        IN  /\ (p \in DOMAIN before /\ p \notin DOMAIN after) =>
                   /\ deleteOrig
                   /\ hist[k].err = "nil"
                   /\ q \in DOMAIN after
                   /\ after[q] = FileEntry(before[p].data)
            /\ hist[k].err = "CopyFailed" => p \in DOMAIN after
            /\ hist[k].err = "RemoveFailed" =>
                   /\ p \in DOMAIN after
                   /\ q \in DOMAIN after
                   /\ after[q] = FileEntry(before[p].data)
            /\ (deleteOrig /\ hist[k].msg = "Renamed") => p \notin DOMAIN after
            /\ ~deleteOrig => DOMAIN before \subseteq DOMAIN after

\* under --delete, one call met a failed copy and another a failed removal
C4_Witness ==
    /\ deleteOrig
    /\ \E j \in Calls, k \in Calls :
           /\ hist[j].err = "CopyFailed"
           /\ hist[k].err = "RemoveFailed"

\* C8 as stated: once the interrupt has cancelled the context, a running
\* batch loop starts no further iteration.
C8_NoIterationAfterInterrupt == [][cancelled => hist' = hist]_vars

\* C9: a call of imgNormalize that returns nil after changing the name
\* leaves at the new path exactly the bytes the original held, leaves a kept
\* original as it was, and touches nothing else; every call, failed or
\* not, adds at most the new path, removes at most the original and changes
\* no entry that was there.
C9_ContentPreserved ==
    \A k \in Calls :
        LET before == FsBefore(k)
            after  == hist[k].after
            p      == Resolve(hist[k].path)
            q      == Resolve(hist[k].newPath)
        IN  /\ hist[k].msg \in {"Created", "Renamed"} =>
                   /\ after[q] = FileEntry(before[p].data)
                   /\ hist[k].msg = "Created" => after[p] = before[p]
                   /\ \A r \in (DOMAIN before \cup DOMAIN after) \ {p, q} :
                          /\ r \in DOMAIN before
                          /\ r \in DOMAIN after
                          /\ after[r] = before[r]
            /\ (DOMAIN after) \ (DOMAIN before) \subseteq {q}
            /\ (DOMAIN before) \ (DOMAIN after) \subseteq {p}
            /\ \A r \in DOMAIN before \cap DOMAIN after : after[r] = before[r]

\* under --delete one call renamed a.T to a.t, which holds a.T's bytes
C9_Witness ==
    \E k \in Calls :
        /\ hist[k].msg = "Renamed"
        /\ Resolve(hist[k].path) = FileaT
        /\ Resolve(hist[k].newPath) = Fileat
        /\ hist[k].after[Fileat] = FileEntry(ContentOf(FileaT))

\* the pairs j < k of iterations on two different files that were there
\* when the batch started, with the same new path, which was not there, j
\* being the first iteration with that new path
Collisions ==
    {jk \in Calls \X Calls :
        LET j == jk[1]
            k == jk[2]
        IN  /\ j < k
            /\ IsFile(fs0, hist[j].path)
            /\ IsFile(fs0, hist[k].path)
            /\ Resolve(hist[j].path) # Resolve(hist[k].path)
            /\ Resolve(NewPathPlan(hist[j].path).newPath)
                   = Resolve(NewPathPlan(hist[k].path).newPath)
            /\ Resolve(NewPathPlan(hist[j].path).newPath) \notin DOMAIN fs0
            /\ \A i \in Calls :
                   (i < j /\ IsFile(fs0, hist[i].path)) =>
                       Resolve(NewPathPlan(hist[i].path).newPath)
                           # Resolve(NewPathPlan(hist[j].path).newPath)}

\* no call of the batch changed the bytes of a file that was there
NothingOverwritten ==
    \A k \in Calls :
        \A r \in DOMAIN FsBefore(k) \cap DOMAIN hist[k].after :
            hist[k].after[r] = FsBefore(k)[r]

\* of two colliding iterations the first was copied, the later one met the
\* Conflict error and kept its file, and the new path holds the first one's
\* bytes
FirstWins(j, k) ==
    /\ hist[j].err \in {"nil", "RemoveFailed"}
    /\ hist[k].err = "Conflict"
    /\ Resolve(hist[k].path) \in DOMAIN fs
    /\ fs[Resolve(hist[k].path)] = fs0[Resolve(hist[k].path)]
    /\ Resolve(hist[j].newPath) \in DOMAIN fs
    /\ fs[Resolve(hist[j].newPath)] = FileEntry(fs0[Resolve(hist[j].path)].data)

====
